---- MODULE Spec2Model ----
(***************************************************************************)
(* Model of xLearn's Model class (src/data/model_parameters.cc): the flat  *)
(* parameter buffer, its initialisation for the linear / fm / ffm score    *)
(* functions, and the checkpoint written by Serialize and read back by the *)
(* Model(filename) constructor.                                            *)
(*                                                                         *)
(* One process run owns one Model object: it is built either by            *)
(* Initialize (Create) or by Model(filename) (Load), may be serialized,    *)
(* and disappears when the run ends (Exit) or a CHECK / LOG(FATAL) aborts  *)
(* the process; the next run starts after Exit.  The checkpoint file       *)
(* outlives the run and can be edited (Tamper) or deleted (Remove)         *)
(* between runs; a run that builds a fresh model starts at a path where    *)
(* no checkpoint exists, since Initialize reads none and Serialize         *)
(* truncates the file it opens.                                            *)
(*                                                                         *)
(* real_t values are kept in fixed point: the integer v stands for         *)
(* v / Unit, so 1.0 is Unit and 0.0 is 0.  Labels are sequences of         *)
(* character codes (a = 1 .. z = 26), so that a length-prefixed string in  *)
(* the checkpoint is a run of words like every other field.                *)
(***************************************************************************)
EXTENDS Integers, Sequences, FiniteSets, TLC

\* ---------------------------------------------------------------- bounds
MaxFeat == 3
MaxField == 2
MaxK == 5
MaxEdits == 1
Unit == 8

\* ----------------------------------------------------- program constants
\* kAlign: number of real_t lanes of one SSE register.
kAlign == 4

\* score function labels
LINEAR == <<12, 9, 14, 5, 1, 18>>
FM == <<6, 13>>
FFM == <<6, 6, 13>>
\* labels the program does not know
SVM == <<19, 22, 13>>
EMPTY == <<>>
\* loss function labels
SQUARED == <<19, 17>>
BOGUS == <<2, 7>>

One == Unit
Uninit == 0 - 1
NoModel == [none |-> TRUE]
NoFile == <<0 - 1>>

VARIABLES model, file, content, edits, call, result, allocs, oob

vars == <<model, file, content, edits, call, result, allocs, oob>>

\* ------------------------------------------------------------- generator
\* std::default_random_engine, default seeded: the same stream in every
\* call of Initialize_w.  A small Lehmer generator stands for it.
GenSeed == 1

NextGen(g) == (3 * g) % 17

\* dis(generator): uniform in [0.0, 1.0), in units of 1/Unit
Dis(g) == (g - 1) % Unit

\* coef * u with coef = 1.0f / sqrt(num_K_), truncated to the fixed point
CoefMul(K, u) == CHOOSE n \in 0..u : n * n * K <= u * u /\ (n + 1) * (n + 1) * K > u * u

\* ------------------------------------------------------------ layout
get_aligned_k(K) == ((K + kAlign - 1) \div kAlign) * kAlign

\* Variant of ParamNumW: the ffm count taken from num_K instead of the
\* aligned K.
ParamNumW_Unpadded(score_func, num_feature, num_field, num_K) ==
  IF score_func = LINEAR THEN num_feature * 2
  ELSE IF score_func = FM THEN num_feature * num_K * 2
  ELSE IF score_func = FFM THEN num_feature * num_K * num_field * 2
  ELSE 0 - 1

ParamNumW(score_func, num_feature, num_field, num_K) ==
  IF score_func = LINEAR THEN num_feature * 2
  ELSE IF score_func = FM THEN num_feature * num_K * 2
  ELSE IF score_func = FFM THEN num_feature * get_aligned_k(num_K) * num_field * 2
  ELSE 0 - 1

\* ------------------------------------------------------- Initialize_w
\* A buffer of n slots as malloc / posix_memalign returns it.
Malloc(n) == [i \in 0..(n - 1) |-> Uninit]

\* One assignment param_w_[i] = v; an index outside the allocation is
\* recorded instead of stored.
Put(c, i, v) ==
  IF i \in DOMAIN c.w THEN [c EXCEPT !.w[i] = v] ELSE [c EXCEPT !.oob = TRUE]

\* The loops run on a record c: the buffer w, the out-of-bounds flag, the
\* generator, and the loop variables i (linear, fm) and d and the cursor p
\* (ffm; p is the offset of the pointer w from param_w_).

\* for (i = 0; i < param_num_w_; i += 2) { w[i] = 0; w[i+1] = 1.0; }
RECURSIVE LinearLoop(_, _)
LinearLoop(c, n) ==
  IF c.i < n
  THEN LET c1 == Put(Put(c, c.i, 0), c.i + 1, One)
       IN  LinearLoop([c1 EXCEPT !.i = @ + 2], n)
  ELSE c

\* for (i = 0; i < param_num_w_; i += 2) { w[i] = coef * dis(gen); w[i+1] = 1.0; }
RECURSIVE FmLoop(_, _, _)
FmLoop(c, n, K) ==
  IF c.i < n
  THEN LET c1 == Put(Put(c, c.i, CoefMul(K, Dis(c.gen))), c.i + 1, One)
       IN  FmLoop([c1 EXCEPT !.i = @ + 2, !.gen = NextGen(@)], n, K)
  ELSE c

\* Variant of FfmLaneLoop: the accumulator stored at w[1].
RECURSIVE FfmLaneLoop_Adjacent(_, _, _)
FfmLaneLoop_Adjacent(c, s, K) ==
  IF s < kAlign
  THEN LET real == c.d < K
           v == IF real THEN CoefMul(K, Dis(c.gen)) ELSE 0
           c1 == Put(Put(c, c.p, v), c.p + 1, One)
       IN  FfmLaneLoop_Adjacent([c1 EXCEPT !.p = @ + 1, !.d = @ + 1,
                                           !.gen = IF real THEN NextGen(@) ELSE @],
                                s + 1, K)
  ELSE c

\* Variant of FfmLaneLoop: the padding test is d <= num_K_.
RECURSIVE FfmLaneLoop_OffByOne(_, _, _)
FfmLaneLoop_OffByOne(c, s, K) ==
  IF s < kAlign
  THEN LET real == c.d <= K
           v == IF real THEN CoefMul(K, Dis(c.gen)) ELSE 0
           c1 == Put(Put(c, c.p, v), c.p + kAlign, One)
       IN  FfmLaneLoop_OffByOne([c1 EXCEPT !.p = @ + 1, !.d = @ + 1,
                                           !.gen = IF real THEN NextGen(@) ELSE @],
                                s + 1, K)
  ELSE c

\* for (s = 0; s < kAlign; s++, w++, d++) { w[0] = ...; w[kAlign] = 1.0; }
RECURSIVE FfmLaneLoop(_, _, _)
FfmLaneLoop(c, s, K) ==
  IF s < kAlign
  THEN LET real == c.d < K
           v == IF real THEN CoefMul(K, Dis(c.gen)) ELSE 0
           c1 == Put(Put(c, c.p, v), c.p + kAlign, One)
       IN  FfmLaneLoop([c1 EXCEPT !.p = @ + 1, !.d = @ + 1,
                                  !.gen = IF real THEN NextGen(@) ELSE @],
                       s + 1, K)
  ELSE c

\* Variant of FfmChunkLoop: the cursor is not moved past the accumulators.
RECURSIVE FfmChunkLoop_NoSkip(_, _, _)
FfmChunkLoop_NoSkip(c, k_aligned, K) ==
  IF c.d < k_aligned
  THEN FfmChunkLoop_NoSkip(FfmLaneLoop(c, 0, K), k_aligned, K)
  ELSE c

\* for (d = 0; d < k_aligned; ) { <lane loop>; w += kAlign; }
RECURSIVE FfmChunkLoop(_, _, _)
FfmChunkLoop(c, k_aligned, K) ==
  IF c.d < k_aligned
  THEN LET c1 == FfmLaneLoop(c, 0, K)
       IN  FfmChunkLoop([c1 EXCEPT !.p = @ + kAlign], k_aligned, K)
  ELSE c

\* for (f = 0; f < num_field_; ++f)
RECURSIVE FfmFieldLoop(_, _, _, _, _)
FfmFieldLoop(c, f, num_field, k_aligned, K) ==
  IF f < num_field
  THEN FfmFieldLoop(FfmChunkLoop([c EXCEPT !.d = 0], k_aligned, K),
                    f + 1, num_field, k_aligned, K)
  ELSE c

\* for (j = 0; j < num_feat_; ++j)
RECURSIVE FfmFeatLoop(_, _, _, _, _, _)
FfmFeatLoop(c, j, num_feat, num_field, k_aligned, K) ==
  IF j < num_feat
  THEN FfmFeatLoop(FfmFieldLoop(c, 0, num_field, k_aligned, K),
                   j + 1, num_feat, num_field, k_aligned, K)
  ELSE c

\* Initialize_w(set_value) on the object m (metadata and param_num_w_ set).
\* Result: fatal (unknown score function, nothing allocated) or the buffer
\* with the flag of a store outside it.
Initialize_w(m, set_value) ==
  IF m.score_func_ \notin {LINEAR, FM, FFM}
  THEN [fatal |-> TRUE, w |-> <<>>, oob |-> FALSE]
  ELSE LET c0 == [w |-> Malloc(m.param_num_w_), oob |-> FALSE,
                  gen |-> GenSeed, i |-> 0, p |-> 0, d |-> 0]
           c1 == IF ~set_value THEN c0
                 ELSE IF m.score_func_ = LINEAR
                   THEN LinearLoop(c0, m.param_num_w_)
                 ELSE IF m.score_func_ = FM
                   THEN FmLoop(c0, m.param_num_w_, m.num_K_)
                 ELSE FfmFeatLoop(c0, 0, m.num_feat_, m.num_field_,
                                  get_aligned_k(m.num_K_), m.num_K_)
       IN  [fatal |-> FALSE, w |-> c1.w, oob |-> c1.oob]

\* --------------------------------------------------------- Initialize
\* Variant of InitializeChecks: CHECK_GE in place of CHECK_GT(num_feature, 0).
InitializeChecks_GE(score_func, loss_func, num_feature, num_field, num_K) ==
  IF score_func = EMPTY THEN "EmptyLabel"
  ELSE IF loss_func = EMPTY THEN "EmptyLabel"
  ELSE IF ~(num_feature >= 0) THEN "InvalidDimensions"
  ELSE IF ~(num_field >= 0) THEN "InvalidDimensions"
  ELSE IF ~(num_K >= 0) THEN "InvalidDimensions"
  ELSE IF score_func \notin {LINEAR, FM, FFM} THEN "InvalidVariant"
  ELSE "ok"

\* The CHECKs and the score function dispatch of Initialize, in order:
\* the name of the first failure, or "ok".
InitializeChecks(score_func, loss_func, num_feature, num_field, num_K) ==
  IF score_func = EMPTY THEN "EmptyLabel"
  ELSE IF loss_func = EMPTY THEN "EmptyLabel"
  ELSE IF ~(num_feature > 0) THEN "InvalidDimensions"
  ELSE IF ~(num_field >= 0) THEN "InvalidDimensions"
  ELSE IF ~(num_K >= 0) THEN "InvalidDimensions"
  ELSE IF score_func \notin {LINEAR, FM, FFM} THEN "InvalidVariant"
  ELSE "ok"

Meta(score_func, loss_func, num_feature, num_field, num_K, n) ==
  [score_func_ |-> score_func, loss_func_ |-> loss_func,
   num_feat_ |-> num_feature, num_field_ |-> num_field, num_K_ |-> num_K,
   param_num_w_ |-> n, param_w_ |-> <<>>]

NoCall == [op |-> "none", score |-> EMPTY, loss |-> EMPTY,
           feat |-> 0, field |-> 0, K |-> 0]

Initialize(score_func, loss_func, num_feature, num_field, num_K) ==
  LET chk == InitializeChecks(score_func, loss_func, num_feature, num_field, num_K)
      m == Meta(score_func, loss_func, num_feature, num_field, num_K,
                ParamNumW(score_func, num_feature, num_field, num_K))
      r == Initialize_w(m, TRUE)
  IN  /\ model = NoModel
      /\ result = "ok"
      /\ file = NoFile
      /\ call' = [op |-> "create", score |-> score_func, loss |-> loss_func,
                  feat |-> num_feature, field |-> num_field, K |-> num_K]
      /\ IF chk # "ok"
         THEN /\ model' = NoModel
              /\ result' = chk
              /\ allocs' = 0
              /\ oob' = FALSE
         ELSE /\ model' = [m EXCEPT !.param_w_ = r.w]
              /\ result' = "ok"
              /\ allocs' = 1
              /\ oob' = r.oob
      /\ UNCHANGED <<file, content, edits>>

Create ==
  \E score_func \in {LINEAR, FM, FFM, SVM, EMPTY},
     num_feature \in 0..MaxFeat, num_field \in 0..MaxField, num_K \in 0..MaxK :
       Initialize(score_func, SQUARED, num_feature, num_field, num_K)

\* ------------------------------------------------------ file utilities
\* The checkpoint is a sequence of words: one word per index_t, per
\* size_t, per real_t and per character.
WriteDataToDisk(f, words) == f \o words

\* the length of the string first, then its characters
WriteStringToFile(f, str) == WriteDataToDisk(WriteDataToDisk(f, <<Len(str)>>), str)

\* len words from position pos; a short read fails
ReadDataFromDisk(f, pos, len) ==
  IF pos + len - 1 <= Len(f)
  THEN [ok |-> TRUE, val |-> SubSeq(f, pos, pos + len - 1), pos |-> pos + len]
  ELSE [ok |-> FALSE, val |-> <<>>, pos |-> pos]

ReadStringFromFile(f, pos) ==
  LET l == ReadDataFromDisk(f, pos, 1)
  IN  IF l.ok THEN ReadDataFromDisk(f, l.pos, l.val[1]) ELSE l

\* ------------------------------------------------------------ Serialize
\* param_w_ as the run of words WriteDataToDisk gets
Words(m) == [i \in 1..m.param_num_w_ |-> m.param_w_[i - 1]]

\* Variant of serialize_w: the size of w is not written.
serialize_w_NoSize(f, m) == WriteDataToDisk(f, Words(m))

serialize_w(f, m) ==
  WriteDataToDisk(WriteDataToDisk(f, <<m.param_num_w_>>), Words(m))

\* Variant of SerializeFile: K written before the field num.
SerializeFile_Swapped(m) ==
  LET f1 == WriteStringToFile(<<>>, m.score_func_)
      f2 == WriteStringToFile(f1, m.loss_func_)
      f3 == WriteDataToDisk(f2, <<m.num_feat_>>)
      f4 == WriteDataToDisk(f3, <<m.num_K_>>)
      f5 == WriteDataToDisk(f4, <<m.num_field_>>)
  IN  serialize_w(f5, m)

SerializeFile(m) ==
  LET f1 == WriteStringToFile(<<>>, m.score_func_)
      f2 == WriteStringToFile(f1, m.loss_func_)
      f3 == WriteDataToDisk(f2, <<m.num_feat_>>)
      f4 == WriteDataToDisk(f3, <<m.num_field_>>)
      f5 == WriteDataToDisk(f4, <<m.num_K_>>)
  IN  serialize_w(f5, m)

\* History variable content: the object the checkpoint was written from,
\* with the fields the later hand edits changed, and whether it is still
\* as Serialize wrote it.
NoContent == [m |-> NoModel, pristine |-> FALSE]

Serialize ==
  /\ model # NoModel
  /\ file' = SerializeFile(model)
  /\ content' = [m |-> model, pristine |-> TRUE]
  /\ call' = [NoCall EXCEPT !.op = "save"]
  /\ result' = "ok"
  /\ allocs' = 0
  /\ UNCHANGED <<model, oob, edits>>

\* ---------------------------------------------------------- Deserialize
\* ReadDataFromDisk(file, param_w_, sizeof(real_t) * param_num_w_): one
\* fread that copies the words to the start of the buffer c.w.
ReadInto(c, words) ==
  [w |-> [i \in DOMAIN c.w |-> IF i < Len(words) THEN words[i + 1] ELSE c.w[i]],
   oob |-> Len(words) > Cardinality(DOMAIN c.w)]

\* Variant of deserialize_w: the size of w recomputed from the metadata
\* instead of taken from the file.
deserialize_w_Recompute(f, pos, m) ==
  LET rn == ReadDataFromDisk(f, pos, 1)
      m1 == [m EXCEPT !.param_num_w_ =
               ParamNumW(m.score_func_, m.num_feat_, m.num_field_, m.num_K_)]
      a == Initialize_w(m1, FALSE)
      rw == ReadDataFromDisk(f, rn.pos, m1.param_num_w_)
      c == ReadInto([w |-> a.w, oob |-> FALSE], rw.val)
  IN  IF ~rn.ok THEN [result |-> "IOError", allocs |-> 0, oob |-> FALSE, model |-> NoModel]
      ELSE IF a.fatal
        THEN [result |-> "InvalidVariant", allocs |-> 0, oob |-> FALSE, model |-> NoModel]
      ELSE IF ~rw.ok
        THEN [result |-> "IOError", allocs |-> 1, oob |-> FALSE, model |-> NoModel]
      ELSE [result |-> "ok", allocs |-> 1, oob |-> c.oob,
            model |-> [m1 EXCEPT !.param_w_ = c.w]]

\* deserialize_w on the object m, reading f from position pos
deserialize_w(f, pos, m) ==
  LET rn == ReadDataFromDisk(f, pos, 1)
      m1 == [m EXCEPT !.param_num_w_ = rn.val[1]]
      a == Initialize_w(m1, FALSE)
      rw == ReadDataFromDisk(f, rn.pos, m1.param_num_w_)
      c == ReadInto([w |-> a.w, oob |-> FALSE], rw.val)
  IN  IF ~rn.ok THEN [result |-> "IOError", allocs |-> 0, oob |-> FALSE, model |-> NoModel]
      ELSE IF a.fatal
        THEN [result |-> "InvalidVariant", allocs |-> 0, oob |-> FALSE, model |-> NoModel]
      ELSE IF ~rw.ok
        THEN [result |-> "IOError", allocs |-> 1, oob |-> FALSE, model |-> NoModel]
      ELSE [result |-> "ok", allocs |-> 1, oob |-> c.oob,
            model |-> [m1 EXCEPT !.param_w_ = c.w]]

DeserializeFile(f) ==
  LET r1 == ReadStringFromFile(f, 1)
      r2 == ReadStringFromFile(f, r1.pos)
      r3 == ReadDataFromDisk(f, r2.pos, 1)
      r4 == ReadDataFromDisk(f, r3.pos, 1)
      r5 == ReadDataFromDisk(f, r4.pos, 1)
      fail == [result |-> "IOError", allocs |-> 0, oob |-> FALSE, model |-> NoModel]
  IN  IF f = NoFile THEN fail
      ELSE IF ~r1.ok THEN fail
      ELSE IF ~r2.ok THEN fail
      ELSE IF ~r3.ok THEN fail
      ELSE IF ~r4.ok THEN fail
      ELSE IF ~r5.ok THEN fail
      ELSE deserialize_w(f, r5.pos,
                         Meta(r1.val, r2.val, r3.val[1], r4.val[1], r5.val[1], 0))

\* Model::Model(filename)
Load ==
  LET r == DeserializeFile(file)
  IN  /\ model = NoModel
      /\ result = "ok"
      /\ model' = r.model
      /\ result' = r.result
      /\ allocs' = r.allocs
      /\ oob' = r.oob
      /\ call' = [NoCall EXCEPT !.op = "load"]
      /\ UNCHANGED <<file, content, edits>>

\* ------------------------------------------------------------ environment
\* The words of f with the length-prefixed string at position pos replaced.
ReplaceString(f, pos, str) ==
  SubSeq(f, 1, pos - 1) \o <<Len(str)>> \o str \o SubSeq(f, pos + 1 + f[pos], Len(f))

ReplaceWord(f, pos, v) == [f EXCEPT ![pos] = v]

LossPos(f) == 2 + f[1]
FeatPos(f) == LossPos(f) + 1 + f[LossPos(f)]

\* A checkpoint written by Serialize is edited by hand between two runs.
Tamper ==
  /\ model = NoModel
  /\ result = "ok"
  /\ file # NoFile
  /\ edits < MaxEdits
  /\ edits' = edits + 1
  /\ \/ /\ file' = ReplaceString(file, 1, SVM)
        /\ content' = [content EXCEPT !.m.score_func_ = SVM, !.pristine = FALSE]
     \/ /\ file' = ReplaceString(file, LossPos(file), BOGUS)
        /\ content' = [content EXCEPT !.m.loss_func_ = BOGUS, !.pristine = FALSE]
     \/ /\ file' = ReplaceWord(file, FeatPos(file), 0)
        /\ content' = [content EXCEPT !.m.num_feat_ = 0, !.pristine = FALSE]
     \/ \E k \in {0 - 2, 0 - 1, 1} :
          /\ content.m.param_num_w_ + k >= 0
          /\ file' = ReplaceWord(file, FeatPos(file) + 3, content.m.param_num_w_ + k)
          /\ content' = [content EXCEPT !.m.param_num_w_ = @ + k, !.pristine = FALSE]
  /\ call' = [NoCall EXCEPT !.op = "tamper"]
  /\ result' = "ok"
  /\ allocs' = 0
  /\ UNCHANGED <<model, oob>>

\* The run ends, by itself or because a CHECK, LOG(FATAL) or exit(0) has
\* stopped it; the checkpoint stays.
Exit ==
  /\ model # NoModel \/ result # "ok"
  /\ model' = NoModel
  /\ call' = [NoCall EXCEPT !.op = "exit"]
  /\ result' = "ok"
  /\ allocs' = 0
  /\ oob' = FALSE
  /\ UNCHANGED <<file, content, edits>>

\* The checkpoint is deleted between two runs.
Remove ==
  /\ model = NoModel
  /\ result = "ok"
  /\ file # NoFile
  /\ file' = NoFile
  /\ content' = NoContent
  /\ call' = [NoCall EXCEPT !.op = "remove"]
  /\ UNCHANGED <<model, edits, result, allocs, oob>>

Init ==
  /\ model = NoModel
  /\ file = NoFile
  /\ content = NoContent
  /\ edits = 0
  /\ call = NoCall
  /\ result = "ok"
  /\ allocs = 0
  /\ oob = FALSE

Next == Create \/ Serialize \/ Load \/ Tamper \/ Remove \/ Exit

Spec == Init /\ [][Next]_vars

\* ================================================================ claims
Known == {LINEAR, FM, FFM}

Created == call.op = "create" /\ result = "ok"

Loaded == call.op = "load" /\ result = "ok"

\* the number of slots of the buffer w
Slots(w) == Cardinality(DOMAIN w)

\* factorCount rounded up to the next multiple of ALIGN_WIDTH
Padded(K) == CHOOSE p \in K..(K + kAlign - 1) : p % kAlign = 0

\* the layout formula of the specification
LayoutSlots(score, feat, field, K) ==
  CASE score = LINEAR -> feat * 2
    [] score = FM -> feat * K * 2
    [] score = FFM -> feat * Padded(K) * field * 2
    [] OTHER -> 0 - 1

\* Offsets, in a field-aware buffer, of the weight and of the accumulator of
\* factor position d of the block of feature j and field f: blocks of
\* 2 * padded slots, made of groups of kAlign weights then kAlign accumulators.
WeightAt(j, f, d, num_field, padded) ==
  (j * num_field + f) * 2 * padded + (d \div kAlign) * 2 * kAlign + (d % kAlign)

AccAt(j, f, d, num_field, padded) == WeightAt(j, f, d, num_field, padded) + kAlign

\* C1: a checkpoint that Serialize wrote and nobody edited loads into a
\* store with the metadata of the store it was written from and the same
\* value at every index of the buffer.
C1_RoundTrip ==
  (call.op = "load" /\ content.pristine) =>
    /\ result = "ok"
    /\ model.score_func_ = content.m.score_func_
    /\ model.loss_func_ = content.m.loss_func_
    /\ model.num_feat_ = content.m.num_feat_
    /\ model.num_field_ = content.m.num_field_
    /\ model.num_K_ = content.m.num_K_
    /\ model.param_num_w_ = content.m.param_num_w_
    /\ DOMAIN model.param_w_ = DOMAIN content.m.param_w_
    /\ \A i \in 0..(model.param_num_w_ - 1) :
         model.param_w_[i] = content.m.param_w_[i]

C1_Witness ==
  /\ Loaded
  /\ content.pristine
  /\ edits = 0
  /\ model.score_func_ = FFM
  /\ model.num_K_ = 3
  /\ model.param_num_w_ = 32
  /\ \E i \in DOMAIN model.param_w_ : model.param_w_[i] \notin {0, One}

\* C2: a fresh store has features*2 slots (linear), features*factors*2
\* (fm), features*paddedFactors*fields*2 (ffm); 3 linear features give 6,
\* 2 features and 4 factors give 16 for fm, 2 features, 2 fields and 3
\* factors give 32 for ffm.
C2_SlotCount ==
  Created =>
    /\ model.param_num_w_ = LayoutSlots(call.score, call.feat, call.field, call.K)
    /\ Slots(model.param_w_) = model.param_num_w_
    /\ (call.score = LINEAR /\ call.feat = 3) => model.param_num_w_ = 6
    /\ (call.score = FM /\ call.feat = 2 /\ call.K = 4) => model.param_num_w_ = 16
    /\ (call.score = FFM /\ call.feat = 2 /\ call.field = 2 /\ call.K = 3)
         => model.param_num_w_ = 32

C2_Witness ==
  /\ Created
  /\ call.score = FFM /\ call.feat = 2 /\ call.field = 2 /\ call.K = 3
  /\ model.param_num_w_ = 32

\* C3 as stated: in a fresh store of any variant buffer[2i] is a weight and
\* buffer[2i+1] its accumulator, equal to 1.0.
C3_Interleaved ==
  Created =>
    \A i \in 0..model.param_num_w_ :
      (2 * i + 1 < model.param_num_w_) =>
        /\ model.param_w_[2 * i] \in 0..(One - 1)
        /\ model.param_w_[2 * i + 1] = One

\* C3 amended: linear and fm buffers are interleaved pairs (weight at 2i,
\* accumulator 1.0 at 2i+1); an ffm buffer is made of groups of 2*kAlign
\* slots, kAlign weights followed by their kAlign accumulators, so the
\* accumulator of the weight at p is at p + kAlign and is 1.0.
C3_PairLayout ==
  Created =>
    \A p \in 0..(model.param_num_w_ - 1) :
      LET acc == IF call.score = FFM THEN p % (2 * kAlign) >= kAlign
                 ELSE p % 2 = 1
      IN  IF acc THEN model.param_w_[p] = One
          ELSE model.param_w_[p] \in 0..(One - 1)

C3_Witness ==
  /\ Created
  /\ call.score = FFM
  /\ call.K = 5
  /\ call.field = 2
  /\ model.param_w_[1] # One
  /\ model.param_w_[kAlign] = One

\* C4: in a fresh ffm store paddedFactors >= factorCount and is a multiple
\* of kAlign; in every block the weight of a position d >= factorCount is
\* 0.0 and the accumulator of every position, padding included, is 1.0.
C4_Padding ==
  (Created /\ call.score = FFM) =>
    LET padded == model.param_num_w_ \div (2 * call.feat * call.field)
    IN  (call.field > 0) =>
          /\ padded >= call.K
          /\ padded % kAlign = 0
          /\ padded - call.K < kAlign
          /\ \A j \in 0..(call.feat - 1), f \in 0..(call.field - 1), d \in 0..(padded - 1) :
               /\ d >= call.K => model.param_w_[WeightAt(j, f, d, call.field, padded)] = 0
               /\ model.param_w_[AccAt(j, f, d, call.field, padded)] = One

C4_Witness ==
  /\ Created
  /\ call.score = FFM /\ call.feat = 2 /\ call.field = 2 /\ call.K = 3
  /\ model.param_w_[WeightAt(1, 1, 3, 2, 4)] = 0
  /\ model.param_w_[WeightAt(1, 1, 2, 2, 4)] # 0
  /\ model.param_w_[AccAt(1, 1, 3, 2, 4)] = One

\* C5: create with featureCount = 0 fails with InvalidDimensions for each
\* of the three variants, and no buffer has been allocated.
C5_ZeroFeatures ==
  (call.op = "create" /\ call.feat = 0 /\ call.score \in Known) =>
    /\ result = "InvalidDimensions"
    /\ model = NoModel
    /\ allocs = 0

C5_Witness ==
  /\ call.op = "create" /\ call.feat = 0 /\ call.score = FFM /\ call.K = 3
  /\ result = "InvalidDimensions"
  /\ allocs = 0

\* C6 as stated: a checkpoint with an unrecognized score label, an
\* unrecognized loss label or a stored featureCount of 0 never loads into a
\* usable store.
C6_LoadRejects ==
  (call.op = "load" /\ content.m # NoModel
     /\ (\/ content.m.score_func_ \notin Known
         \/ content.m.loss_func_ = BOGUS
         \/ content.m.num_feat_ = 0)) =>
    /\ result # "ok"
    /\ model = NoModel

\* C7: a checkpoint whose stored slotCount differs from the one its own
\* metadata implies loads without error; the store has the stored count, a
\* buffer of that many slots, and the first that many stored values in it.
C7_StoredCountTrusted ==
  (/\ call.op = "load"
   /\ content.m # NoModel
   /\ content.m.score_func_ \in Known
   /\ content.m.param_num_w_ # LayoutSlots(content.m.score_func_, content.m.num_feat_,
                                           content.m.num_field_, content.m.num_K_)
   /\ content.m.param_num_w_ <= Slots(content.m.param_w_)) =>
    /\ result = "ok"
    /\ allocs = 1
    /\ model.param_num_w_ = content.m.param_num_w_
    /\ DOMAIN model.param_w_ = 0..(content.m.param_num_w_ - 1)
    /\ \A i \in DOMAIN model.param_w_ : model.param_w_[i] = content.m.param_w_[i]

C7_Witness ==
  /\ Loaded
  /\ content.m.score_func_ = FFM
  /\ content.m.num_feat_ = 2 /\ content.m.num_field_ = 2 /\ content.m.num_K_ = 3
  /\ model.param_num_w_ = 31
  /\ Slots(model.param_w_) = 31

\* C8 as stated: create of an fm or ffm store with factorCount = 0 fails
\* with InvalidDimensions and yields no store.
C8_FactorsRequired ==
  (call.op = "create" /\ call.score \in {FM, FFM} /\ call.K = 0) =>
    /\ result = "InvalidDimensions"
    /\ model = NoModel

\* C9: when create or load returns, every index of [0, slotCount) has been
\* assigned and no index outside it was written.
C9_FullyAssigned ==
  (Created \/ Loaded) =>
    /\ ~oob
    /\ DOMAIN model.param_w_ = 0..(model.param_num_w_ - 1)
    /\ \A i \in DOMAIN model.param_w_ : model.param_w_[i] # Uninit

C9_Witness ==
  /\ Created
  /\ call.score = FFM /\ call.feat = MaxFeat /\ call.field = MaxField /\ call.K = MaxK
  /\ ~oob
  /\ model.param_w_[model.param_num_w_ - 1] = One

\* C10 as stated: every existing store, loaded ones included, has an even
\* slotCount equal to the layout formula of its own metadata (read here for
\* the stores whose featureCount is positive).
C10_SlotCountDerived ==
  (model # NoModel /\ model.num_feat_ > 0) =>
    /\ model.param_num_w_ % 2 = 0
    /\ model.param_num_w_ = LayoutSlots(model.score_func_, model.num_feat_,
                                        model.num_field_, model.num_K_)

\* C10 amended: the same, for fresh stores and for every store as long as no
\* checkpoint has been edited outside Serialize.
C10_SlotCountDerivedUnedited ==
  (model # NoModel /\ (edits = 0 \/ call.op = "create")) =>
    /\ model.param_num_w_ % 2 = 0
    /\ model.param_num_w_ = LayoutSlots(model.score_func_, model.num_feat_,
                                        model.num_field_, model.num_K_)

C10_Witness ==
  /\ Loaded
  /\ edits = 0
  /\ model.score_func_ = FM
  /\ model.num_feat_ = 2 /\ model.num_K_ = 4 /\ model.num_field_ = 1
  /\ model.param_num_w_ = 16

====
